---------------------------- MODULE Spec2Model ----------------------------
(***************************************************************************)
(* A model of lambda_handler in                                            *)
(* src/lambda_functions/weather_ingestion/lambda_function.py: one          *)
(* invocation of the weather ingestion handler, statement group by         *)
(* statement group, with the environment (process environment, boto3,      *)
(* the weather provider, the two storage sinks, the wall clock) choosing   *)
(* the outcome of every call the handler makes.                            *)
(***************************************************************************)
EXTENDS Integers, Sequences, FiniteSets, TLC

VARIABLES
    api_key,      \* os.environ.get('WEATHER_API_KEY'): None, '' or a key
    bucket_name,  \* os.environ.get('S3_BUCKET_NAME'): None, '' or a name
    pc,           \* the statement group the handler is about to run
    handles,      \* the locals s3, dynamodb and table that are bound
    i,            \* index of the city being processed (1-based)
    data,         \* the parsed payload of the current city, or NoData
    current_temp, \* line 61
    timestamp,    \* line 65
    s3_key,       \* line 71
    clock,        \* the wall clock, as the index of the current instant
    results,      \* the list of per-city result entries
    objects,      \* objects written to the object store, in order
    rows,         \* rows written to the table, in order
    ops,          \* every outbound call made, in order
    response,     \* the value returned, or NoResponse
    raised,       \* an exception propagated to the caller, or NoException
    dropped,      \* the field that the provider's incomplete payloads lack
    tok,          \* (number conversion) a JSON number literal
    parsed,       \* (number conversion) json.loads of the literal
    stored,       \* (number conversion) Decimal(str(parsed)) as a string
    dpc           \* (number conversion) position

vars == <<api_key, bucket_name, pc, handles, i, data, current_temp, timestamp, s3_key,
          clock, results, objects, rows, ops, response, raised, dropped,
          tok, parsed, stored, dpc>>

hvars == <<api_key, bucket_name, pc, handles, i, data, current_temp, timestamp, s3_key,
           clock, results, objects, rows, ops, response, raised, dropped>>

dvars == <<tok, parsed, stored, dpc>>

\* what no step of the handler changes: the process environment, the
\* provider's habit, and the number conversion's state
env == <<api_key, bucket_name, dropped, tok, parsed, stored, dpc>>

----------------------------------------------------------------------------
(* Bounds of the model *)

\* The wall clock takes the instants 0..MaxClock.
MaxClock == 1
\* A JSON number literal has at most MaxIntDigits digits before the point
MaxIntDigits == 2
\* and at most MaxFracDigits digits after it.
MaxFracDigits == 2

----------------------------------------------------------------------------
(* Strings *)

RECURSIVE Join(_)
\* ''.join(cs): a sequence of one-character strings as one string
Join(cs) == IF cs = <<>> THEN "" ELSE Head(cs) \o Join(Tail(cs))

\* str.replace(' ', '_') on a sequence of one-character strings
ReplaceSpaces(cs) == [k \in 1..Len(cs) |-> IF cs[k] = " " THEN "_" ELSE cs[k]]

\* a non-negative integer in decimal, zero-padded to width w (%02d, %04d, %06d)
RECURSIVE Pad(_, _)
Pad(n, w) == IF w = 0 THEN "" ELSE Pad(n \div 10, w - 1) \o ToString(n % 10)


----------------------------------------------------------------------------
(* Numbers: a JSON number literal, json.loads, str and Decimal             *)
(*                                                                         *)
(* A literal is [ip, fp, point]: the digits before the point, the digits   *)
(* after it, and whether it has a point at all ("23.10" is                 *)
(* [ip |-> <<2,3>>, fp |-> <<1,0>>, point |-> TRUE]).  Literals are        *)
(* non-negative and carry no exponent.                                     *)

RECURSIVE DigitsStr(_)
DigitsStr(ds) == IF ds = <<>> THEN "" ELSE ToString(Head(ds)) \o DigitsStr(Tail(ds))

RECURSIVE StripTrailingZeros(_)
StripTrailingZeros(ds) ==
    IF ds # <<>> /\ ds[Len(ds)] = 0
    THEN StripTrailingZeros(SubSeq(ds, 1, Len(ds) - 1))
    ELSE ds

RECURSIVE StripLeadingZeros(_)
StripLeadingZeros(ds) ==
    IF ds # <<>> /\ Head(ds) = 0 THEN StripLeadingZeros(Tail(ds)) ELSE ds

\* the text of a literal, as it stands in the response body of the provider
Literal(t) ==
    DigitsStr(t.ip) \o (IF t.point THEN "." \o DigitsStr(t.fp) ELSE "")

\* the number of significant decimal digits of a literal
SigDigits(t) == Len(StripLeadingZeros(t.ip \o StripTrailingZeros(t.fp)))

\* the digits of 2^53, from which on the doubles are the even integers
TwoTo53 == <<9,0,0,7,1,9,9,2,5,4,7,4,0,9,9,2>>

\* a 16-digit integer at or above 2^53 (and so below 2^54, which has 17)
\* whose leading 14 digits are those of 2^53
InBinade53(ds) ==
    /\ Len(ds) = 16
    /\ SubSeq(ds, 1, 14) = SubSeq(TwoTo53, 1, 14)
    /\ ds[15] * 10 + ds[16] >= 92

RECURSIVE Incr(_)
\* ds + 1 on digit sequences
Incr(ds) ==
    IF ds = <<>> THEN <<1>>
    ELSE IF ds[Len(ds)] < 9
         THEN [ds EXCEPT ![Len(ds)] = @ + 1]
         ELSE Append(Incr(SubSeq(ds, 1, Len(ds) - 1)), 0)

\* ds - 1 on the digit sequence of an odd integer
DecrOdd(ds) == [ds EXCEPT ![Len(ds)] = @ - 1]

\* the integer n in [2^53, 2^54) rounded to the nearest double: the doubles
\* there are the even integers; an odd n is a tie, which goes to the
\* neighbour with the even significand, the multiple of 4
RoundBinade53(ds) ==
    LET last2 == ds[15] * 10 + ds[16]
    IN  IF last2 % 2 = 0 THEN ds
        ELSE IF (last2 - 1) % 4 = 0 THEN DecrOdd(ds) ELSE Incr(ds)

\* the literals whose conversion to a double this model computes: at most
\* 15 significant digits (every such decimal survives the trip through a
\* double and back), or an integer-valued literal in [2^53, 2^54)
Modelled(t) ==
    \/ SigDigits(t) <= 15
    \/ InBinade53(t.ip) /\ StripTrailingZeros(t.fp) = <<>>

\* float(literal), the double being named by the shortest decimal that
\* reads back as it (what repr prints)
FloatOf(t) ==
    IF SigDigits(t) <= 15
    THEN [type |-> "float", ip |-> t.ip, fp |-> StripTrailingZeros(t.fp)]
    ELSE [type |-> "float", ip |-> RoundBinade53(t.ip), fp |-> <<>>]

\* json.loads of a number literal: an int without a point, else a float
JsonNumber(t) ==
    IF t.point THEN FloatOf(t) ELSE [type |-> "int", ip |-> t.ip, fp |-> <<>>]

\* str(v) of an int or of a float in [1e-4, 1e16) or zero: a float always
\* shows a point and at least one digit after it
PyStr(v) ==
    IF v.type = "int"
    THEN [ip |-> v.ip, fp |-> <<>>, point |-> FALSE]
    ELSE [ip |-> v.ip, fp |-> IF v.fp = <<>> THEN <<0>> ELSE v.fp, point |-> TRUE]

\* Decimal(s): the coefficient (an integer, as digits) and the exponent
PyDecimal(s) ==
    LET c == StripLeadingZeros(s.ip \o s.fp)
    IN  [coef |-> IF c = <<>> THEN <<0>> ELSE c, exp |-> 0 - Len(s.fp)]

\* (mutant) Decimal(int(v)): the fraction is lost
ToDecimalTruncating(v) ==
    PyDecimal([ip |-> v.ip, fp |-> <<>>, point |-> FALSE])

\* Decimal(str(v)), as lines 91-101 build every numeric field
ToDecimal(v) == PyDecimal(PyStr(v))

RECURSIVE Zeros(_)
Zeros(n) == IF n <= 0 THEN <<>> ELSE <<0>> \o Zeros(n - 1)

\* str(d) of a Decimal with exponent <= 0, in positional notation
DecimalStr(d) ==
    LET n  == 0 - d.exp
        c  == Zeros(n + 1 - Len(d.coef)) \o d.coef
        ip == SubSeq(c, 1, Len(c) - n)
        fp == SubSeq(c, Len(c) - n + 1, Len(c))
    IN  DigitsStr(ip) \o (IF n > 0 THEN "." \o DigitsStr(fp) ELSE "")

\* a Decimal as <<integer digits, fraction digits>> without leading or
\* trailing zeros: two numbers are equal iff these agree
DecimalValue(d) ==
    LET n  == 0 - d.exp
        c  == Zeros(n + 1 - Len(d.coef)) \o d.coef
    IN  <<StripLeadingZeros(SubSeq(c, 1, Len(c) - n)),
          StripTrailingZeros(SubSeq(c, Len(c) - n + 1, Len(c)))>>

\* the value of a literal, in the same form
LiteralValue(t) == <<StripLeadingZeros(t.ip), StripTrailingZeros(t.fp)>>

----------------------------------------------------------------------------
(* The wall clock: datetime.now(), isoformat and strftime                  *)

\* The instants the clock can show: the last microsecond of 2024-03-05, then
\* midnight, then the last microsecond of 2024-03-06, and so on.
Instant(k) ==
    [year |-> 2024, month |-> 3, day |-> 5 + ((k + 1) \div 2),
     hour   |-> IF k % 2 = 0 THEN 23 ELSE 0,
     minute |-> IF k % 2 = 0 THEN 59 ELSE 0,
     second |-> IF k % 2 = 0 THEN 59 ELSE 0,
     microsecond |-> IF k % 2 = 0 THEN 999999 ELSE 0]

\* datetime.isoformat(): the microseconds are left out when they are zero
IsoFormat(dt) ==
    Pad(dt.year, 4) \o "-" \o Pad(dt.month, 2) \o "-" \o Pad(dt.day, 2) \o "T"
    \o Pad(dt.hour, 2) \o ":" \o Pad(dt.minute, 2) \o ":" \o Pad(dt.second, 2)
    \o (IF dt.microsecond # 0 THEN "." \o Pad(dt.microsecond, 6) ELSE "")

\* datetime.strftime('%Y/%m/%d')
StrftimeYmd(dt) ==
    Pad(dt.year, 4) \o "/" \o Pad(dt.month, 2) \o "/" \o Pad(dt.day, 2)

\* the instants a read of the clock may return: the clock does not go back
ClockReads == clock..MaxClock

----------------------------------------------------------------------------
(* The cities (lines 44-45) *)

cities == <<"Pretoria", "Cape%20Town", "Johannesburg", "Durban">>

city_display ==
    << <<"P","r","e","t","o","r","i","a">>,
       <<"C","a","p","e"," ","T","o","w","n">>,
       <<"J","o","h","a","n","n","e","s","b","u","r","g">>,
       <<"D","u","r","b","a","n">> >>

\* city_display[i] (line 51)
display_name(k) == Join(city_display[k])

\* line 55
Url(k, key) ==
    "http://api.openweathermap.org/data/2.5/weather?q=" \o cities[k]
    \o "&appid=" \o key \o "&units=metric"

\* lines 70-71: safe_city, and the key built from a second read of the clock
S3Key(k, now, ts) ==
    "raw-data/" \o Join(ReplaceSpaces(city_display[k])) \o "/"
    \o StrftimeYmd(now) \o "/" \o ts \o ".json"

----------------------------------------------------------------------------
(* The environment *)

None == "None"
\* what os.environ.get may return: None, the empty string, or a value
ApiKeys == {None, "", "k3y"}
Buckets == {None, "", "weather-bucket"}

\* (mutant) `v is None`: the empty string passes
IsNone(v) == v = None

\* `not v` of None or a string
Not(v) == v = None \/ v = ""

(* The provider's payload.  A payload is the set of the expected fields it *)
(* carries; the numbers of a payload are those of Sample.                  *)

Paths ==
    {"main.temp", "main.humidity", "main.pressure", "weather[0]", "wind.speed",
     "visibility", "clouds.all", "sys.country", "sys.sunrise", "sys.sunset"}

\* the payloads of one invocation: the complete payload, and the payload
\* that lacks the field this provider drops
Payloads == {Paths, Paths \ {dropped}}

Lit(ip, fp, point) == [ip |-> ip, fp |-> fp, point |-> point]

Sample ==
    [p \in Paths |->
       CASE p = "main.temp"     -> Lit(<<2,3>>, <<4,5,6>>, TRUE)
         [] p = "main.humidity" -> Lit(<<6,5>>, <<>>, FALSE)
         [] p = "main.pressure" -> Lit(<<1,0,1,3>>, <<>>, FALSE)
         [] p = "wind.speed"    -> Lit(<<3>>, <<6>>, TRUE)
         [] p = "visibility"    -> Lit(<<1,0,0,0,0>>, <<>>, FALSE)
         [] p = "clouds.all"    -> Lit(<<4,0>>, <<>>, FALSE)
         [] p = "sys.sunrise"   -> Lit(<<1,7,0,9,6,1,1,2,0,0>>, <<>>, FALSE)
         [] p = "sys.sunset"    -> Lit(<<1,7,0,9,6,5,6,8,0,0>>, <<>>, FALSE)
         [] OTHER               -> Lit(<<0>>, <<>>, FALSE)]

\* the failures of lines 58-59: urlopen (no connection, or a status that is
\* not 200: both raise a URLError) and json.loads
FetchErrors ==
    {"<urlopen error timed out>", "Expecting value: line 1 column 1 (char 0)"}

S3Error == "An error occurred (AccessDenied) when calling the PutObject operation"
TableError == "An error occurred (ResourceNotFoundException) when calling the PutItem operation"
ClientErrors == [s3_client |-> "You must specify a region.",
                 dynamodb  |-> "You must specify a region.",
                 table     |-> "Could not load the resource model"]

NoData == [present |-> {}, timestamp |-> "", city |-> ""]
NoResponse == [statusCode |-> 0]
NoException == "no exception"

----------------------------------------------------------------------------
(* The table item (lines 88-102) *)

\* (mutant) data['visibility'] in place of data.get('visibility', 0)
IndexedAll ==
    <<"main.temp", "main.humidity", "main.pressure", "weather[0]",
      "wind.speed", "visibility", "clouds.all", "sys.country", "sys.sunrise",
      "sys.sunset">>

\* the fields lines 91-101 read by index, in the order they are read
Indexed ==
    <<"main.temp", "main.humidity", "main.pressure", "weather[0]",
      "wind.speed", "clouds.all", "sys.country", "sys.sunrise", "sys.sunset">>

\* str(e) of the KeyError or IndexError that reading an absent field raises
LookupError(p) ==
    CASE p = "main.temp"     -> "'temp'"
      [] p = "main.humidity" -> "'humidity'"
      [] p = "main.pressure" -> "'pressure'"
      [] p = "weather[0]"    -> "list index out of range"
      [] p = "wind.speed"    -> "'speed'"
      [] p = "visibility"    -> "'visibility'"
      [] p = "clouds.all"    -> "'all'"
      [] p = "sys.country"   -> "'country'"
      [] p = "sys.sunrise"   -> "'sunrise'"
      [] p = "sys.sunset"    -> "'sunset'"

\* the indexed fields a payload lacks, in the order they are read
MissingIndexed(d) == SelectSeq(Indexed, LAMBDA p : p \notin d.present)

\* data[...] of a numeric field that is present
Value(p) == JsonNumber(Sample[p])

\* data.get('visibility', 0)
Visibility(d) ==
    IF "visibility" \in d.present
    THEN Value("visibility")
    ELSE [type |-> "int", ip |-> <<0>>, fp |-> <<>>]

\* the Item of line 88, when every indexed field is present
Item(d, name, ts) ==
    [city                |-> name,
     timestamp           |-> ts,
     temperature         |-> ToDecimal(Value("main.temp")),
     humidity            |-> ToDecimal(Value("main.humidity")),
     pressure            |-> ToDecimal(Value("main.pressure")),
     weather_condition   |-> "Clouds",
     weather_description |-> "scattered clouds",
     wind_speed          |-> ToDecimal(Value("wind.speed")),
     visibility          |-> ToDecimal(Visibility(d)),
     cloudiness          |-> ToDecimal(Value("clouds.all")),
     country             |-> "ZA",
     sunrise             |-> ToDecimal(Value("sys.sunrise")),
     sunset              |-> ToDecimal(Value("sys.sunset"))]

\* data.get('main', {}).get('temp', 'N/A') (line 61), as json.dumps writes it
CurrentTemp(d) ==
    IF "main.temp" \in d.present
    THEN Literal(PyStr(Value("main.temp")))
    ELSE "N/A"

----------------------------------------------------------------------------
(* The handler *)

\* the state in which lambda_handler is entered
Entry ==
    /\ api_key \in ApiKeys
    /\ bucket_name \in Buckets
    /\ pc = "s3_client"
    /\ handles = {}
    /\ i = 1
    /\ data = NoData
    /\ current_temp = ""
    /\ timestamp = ""
    /\ s3_key = ""
    /\ results = <<>>
    /\ objects = <<>>
    /\ rows = <<>>
    /\ ops = <<>>
    /\ response = NoResponse
    /\ raised = NoException
    /\ tok = Lit(<<0>>, <<>>, FALSE)
    /\ parsed = None
    /\ stored = None
    /\ dpc = "idle"

\* an invocation during which the clock may advance, against a provider
\* whose incomplete payloads lack one of three fields
Init ==
    /\ Entry
    /\ clock = 0
    /\ dropped \in {"visibility", "main.temp", "weather[0]"}

\* an invocation at one instant, against a provider whose incomplete
\* payloads lack any one of the expected fields
InitPayload ==
    /\ Entry
    /\ clock = MaxClock
    /\ dropped \in Paths

\* (mutant) the exception's message is not reported
FatalBodyGeneric(msg, now) ==
    [statusCode |-> 500,
     body |-> [error |-> "Fatal error in weather data collection",
               details |-> "internal error",
               execution_time |-> IsoFormat(now)]]

\* lines 141-151: the outer except clause
FatalBody(msg, now) ==
    [statusCode |-> 500,
     body |-> [error |-> "Fatal error in weather data collection",
               details |-> msg,
               execution_time |-> IsoFormat(now)]]

\* (mutant) no outer try: the exception leaves the handler
OuterExceptReraise(msg) ==
    /\ raised' = msg
    /\ pc' = "done"
    /\ UNCHANGED <<clock, response>>

OuterExcept(msg) ==
    /\ \E t \in ClockReads :
         /\ clock' = t
         /\ response' = FatalBody(msg, Instant(t))
    /\ pc' = "done"
    /\ UNCHANGED raised

\* (mutant) the table is written before the object store
StepsTableFirst == <<"fetch", "stamp", "key", "put_item", "s3_put", "append">>

\* the statements of one iteration (lines 51-111), in the order they run
Steps == <<"fetch", "stamp", "key", "s3_put", "put_item", "append">>

\* the statement that follows s when s raises nothing
After(s) == Steps[(CHOOSE k \in 1..Len(Steps) : Steps[k] = s) + 1]

\* the for statement of line 49: on to the next city, or out of the loop.
\* The locals of an iteration are dead once it ends.
NextCity ==
    /\ i' = i + 1
    /\ pc' = IF i < Len(cities) THEN Steps[1] ELSE "aggregate"
    /\ data' = NoData
    /\ current_temp' = ""
    /\ timestamp' = ""
    /\ s3_key' = ""

\* lines 113-120: the except clause of one city
ErrorEntry(k, msg) == [city |-> display_name(k), status |-> "error", error |-> msg]

\* (mutant) the except clause ends the loop
CityExceptBreak(msg) ==
    /\ results' = Append(results, ErrorEntry(i, msg))
    /\ i' = i + 1
    /\ pc' = "aggregate"
    /\ data' = NoData
    /\ current_temp' = ""
    /\ timestamp' = ""
    /\ s3_key' = ""

CityExcept(msg) ==
    /\ results' = Append(results, ErrorEntry(i, msg))
    /\ NextCity

\* line 21
S3Client ==
    /\ pc = "s3_client"
    /\ \/ /\ pc' = "dynamodb"
          /\ handles' = handles \cup {"s3"}
          /\ UNCHANGED <<clock, response, raised>>
       \/ /\ OuterExcept(ClientErrors.s3_client)
          /\ UNCHANGED handles
    /\ UNCHANGED <<env, i, data, current_temp, timestamp,
                   s3_key, results, objects, rows, ops>>

\* line 22
DynamoResource ==
    /\ pc = "dynamodb"
    /\ \/ /\ pc' = "table"
          /\ handles' = handles \cup {"dynamodb"}
          /\ UNCHANGED <<clock, response, raised>>
       \/ /\ OuterExcept(ClientErrors.dynamodb)
          /\ UNCHANGED handles
    /\ UNCHANGED <<env, i, data, current_temp, timestamp,
                   s3_key, results, objects, rows, ops>>

\* line 23
Table ==
    /\ pc = "table"
    /\ \/ /\ pc' = "config"
          /\ handles' = handles \cup {"table"}
          /\ UNCHANGED <<clock, response, raised>>
       \/ /\ OuterExcept(ClientErrors.table)
          /\ UNCHANGED handles
    /\ UNCHANGED <<env, i, data, current_temp, timestamp,
                   s3_key, results, objects, rows, ops>>

\* lines 26-41
BadRequest(msg) == [statusCode |-> 400, body |-> [error |-> msg]]

CheckConfig ==
    /\ pc = "config"
    /\ IF Not(api_key)
       THEN /\ response' = BadRequest("Missing WEATHER_API_KEY environment variable")
            /\ pc' = "done"
       ELSE IF Not(bucket_name)
       THEN /\ response' = BadRequest("Missing S3_BUCKET_NAME environment variable")
            /\ pc' = "done"
       ELSE /\ pc' = Steps[1]
            /\ UNCHANGED response
    /\ UNCHANGED <<env, handles, i, data, current_temp, timestamp,
                   s3_key, clock, results, objects, rows, ops, raised>>

\* lines 51-59: the GET and the parse of its body
Fetch ==
    /\ pc = "fetch"
    /\ ops' = Append(ops, [op |-> "http", city |-> i, arg |-> Url(i, api_key)])
    /\ \/ \E e \in FetchErrors : CityExcept(e)
       \/ \E p \in Payloads :
            /\ data' = [present |-> p, timestamp |-> "", city |-> ""]
            /\ pc' = After("fetch")
            /\ UNCHANGED <<i, current_temp, timestamp, s3_key, results>>
    /\ UNCHANGED <<env, handles, clock, objects, rows, response, raised>>

\* lines 61-67: the first read of the clock
Stamp ==
    /\ pc = "stamp"
    /\ current_temp' = CurrentTemp(data)
    /\ \E t \in ClockReads :
         /\ clock' = t
         /\ timestamp' = IsoFormat(Instant(t))
         /\ data' = [data EXCEPT !.timestamp = IsoFormat(Instant(t)),
                                 !.city = display_name(i)]
    /\ pc' = After("stamp")
    /\ UNCHANGED <<env, handles, i, s3_key, results, objects, rows,
                   ops, response, raised>>

\* lines 70-71: the second read of the clock
MakeKey ==
    /\ pc = "key"
    /\ \E t \in ClockReads :
         /\ clock' = t
         /\ s3_key' = S3Key(i, Instant(t), timestamp)
    /\ pc' = After("key")
    /\ UNCHANGED <<env, handles, i, data, current_temp, timestamp,
                   results, objects, rows, ops, response, raised>>

\* lines 73-83
PutObject ==
    /\ pc = "s3_put"
    /\ ops' = Append(ops, [op |-> "put_object", city |-> i, arg |-> s3_key])
    /\ \/ /\ CityExcept(S3Error)
          /\ UNCHANGED objects
       \/ /\ objects' = Append(objects,
                 [Bucket |-> bucket_name, Key |-> s3_key, Body |-> data,
                  ContentType |-> "application/json",
                  Metadata |-> [city |-> display_name(i),
                                collection_time |-> timestamp,
                                data_source |-> "openweathermap"]])
          /\ pc' = After("s3_put")
          /\ UNCHANGED <<i, data, current_temp, timestamp, s3_key, results>>
    /\ UNCHANGED <<env, handles, clock, rows, response, raised>>

\* lines 87-103: the item is built first, and a field it cannot read raises
\* before the table is called
PutItem ==
    /\ pc = "put_item"
    /\ IF MissingIndexed(data) # <<>>
       THEN /\ CityExcept(LookupError(Head(MissingIndexed(data))))
            /\ UNCHANGED <<ops, rows>>
       ELSE /\ ops' = Append(ops, [op |-> "put_item", city |-> i, arg |-> timestamp])
            /\ \/ /\ CityExcept(TableError)
                  /\ UNCHANGED rows
               \/ /\ rows' = Append(rows, Item(data, display_name(i), timestamp))
                  /\ pc' = After("put_item")
                  /\ UNCHANGED <<i, data, current_temp, timestamp, s3_key, results>>
    /\ UNCHANGED <<env, handles, clock, objects, response, raised>>

\* (mutant) the entry takes a timestamp of its own from the clock
SuccessEntryNow(k, ts, temp) ==
    [city |-> display_name(k), status |-> "success",
     timestamp |-> IsoFormat(Instant(clock)), temperature |-> temp]

\* lines 106-111
SuccessEntry(k, ts, temp) ==
    [city |-> display_name(k), status |-> "success", timestamp |-> ts,
     temperature |-> temp]

AppendResult ==
    /\ pc = "append"
    /\ results' = Append(results, SuccessEntry(i, timestamp, current_temp))
    /\ NextCity
    /\ UNCHANGED <<env, handles, clock, objects, rows, ops, response,
                   raised>>

\* line 123
Successful(rs) == SelectSeq(rs, LAMBDA r : r.status = "success")

\* (mutant) the rate without its decimal place
FormatRateWhole(k, n) == ToString((k * 100) \div n) \o "%"

\* f"{k / n * 100:.1f}%" (lines 124 and 135): the tenths of the percentage,
\* rounded half to even, with one digit after the point
FormatRate(k, n) ==
    LET q == (k * 1000) \div n
        r == (k * 1000) % n
        tenths == IF 2 * r < n \/ (2 * r = n /\ q % 2 = 0) THEN q ELSE q + 1
    IN  ToString(tenths \div 10) \o "." \o ToString(tenths % 10) \o "%"

\* lines 129-139
Summary(rs, now) ==
    [statusCode |-> 200,
     body |-> [message |-> "Weather data collection completed",
               processed_cities |-> Len(rs),
               successful_cities |-> Len(Successful(rs)),
               success_rate |-> FormatRate(Len(Successful(rs)), Len(rs)),
               execution_time |-> IsoFormat(now),
               results |-> rs]]

\* lines 123-139: a division by zero would be caught at line 141
Aggregate ==
    /\ pc = "aggregate"
    /\ IF Len(results) = 0
       THEN OuterExcept("division by zero")
       ELSE /\ \E t \in ClockReads :
                 /\ clock' = t
                 /\ response' = Summary(results, Instant(t))
            /\ pc' = "done"
            /\ UNCHANGED raised
    /\ UNCHANGED <<env, handles, i, data, current_temp, timestamp,
                   s3_key, results, objects, rows, ops>>

Next ==
    \/ S3Client
    \/ DynamoResource
    \/ Table
    \/ CheckConfig
    \/ Fetch
    \/ Stamp
    \/ MakeKey
    \/ PutObject
    \/ PutItem
    \/ AppendResult
    \/ Aggregate

Spec == Init /\ [][Next]_vars

SpecPayload == InitPayload /\ [][Next]_vars

----------------------------------------------------------------------------
(* The numbers of the table item, on their own: a literal of the payload   *)
(* goes through json.loads (line 59) and Decimal(str(...)) (lines 91-101). *)

\* the digits the literals are written with
LiteralDigits == {0, 1, 5, 9}

\* digit sequences of length 1..n
RECURSIVE DigitSeqs(_)
DigitSeqs(n) ==
    IF n = 0 THEN {}
    ELSE DigitSeqs(n - 1) \cup [1..n -> LiteralDigits]

\* the integer parts JSON allows: no leading zero but for "0" itself
IntParts == {ds \in DigitSeqs(MaxIntDigits) : Len(ds) = 1 \/ ds[1] # 0}

\* the 16-digit integers from 2^53 to 2^53 + 7
BigIntParts == {SubSeq(TwoTo53, 1, 15) \o <<d>> : d \in 2..9}

Literals ==
    {t \in {Lit(ip, <<>>, FALSE) : ip \in IntParts \cup BigIntParts}
            \cup {Lit(ip, fp, TRUE) : ip \in IntParts, fp \in DigitSeqs(MaxFracDigits)}
            \cup {Lit(ip, <<0>>, TRUE) : ip \in BigIntParts} :
       Modelled(t)}

InitNumber ==
    /\ api_key = None
    /\ bucket_name = None
    /\ pc = "done"
    /\ handles = {}
    /\ i = 1
    /\ data = NoData
    /\ current_temp = ""
    /\ timestamp = ""
    /\ s3_key = ""
    /\ clock = 0
    /\ results = <<>>
    /\ objects = <<>>
    /\ rows = <<>>
    /\ ops = <<>>
    /\ response = NoResponse
    /\ raised = NoException
    /\ dropped = "visibility"
    /\ tok \in Literals
    /\ parsed = None
    /\ stored = None
    /\ dpc = "loads"

\* line 59
Loads ==
    /\ dpc = "loads"
    /\ parsed' = JsonNumber(tok)
    /\ dpc' = "decimal"
    /\ UNCHANGED <<hvars, tok, stored>>

\* lines 91-101
StoreDecimal ==
    /\ dpc = "decimal"
    /\ stored' = ToDecimal(parsed)
    /\ dpc' = "stored"
    /\ UNCHANGED <<hvars, tok, parsed>>

NextNumber == Loads \/ StoreDecimal

SpecNumber == InitNumber /\ [][NextNumber]_vars

----------------------------------------------------------------------------
(* What the claims speak of *)

\* the display names, written out
ExpectedNames == <<"Pretoria", "Cape Town", "Johannesburg", "Durban">>
\* the display names with underscores for spaces, written out
ExpectedSafeNames == <<"Pretoria", "Cape_Town", "Johannesburg", "Durban">>

CityPcs == {"fetch", "stamp", "key", "s3_put", "put_item", "append"}
AllHandles == {"s3", "dynamodb", "table"}
ConfigMissing == api_key \in {None, ""} \/ bucket_name \in {None, ""}

Returned(code) == pc = "done" /\ response.statusCode = code

\* the cities whose result entry has the given status
CitiesWith(rs, status) == {k \in 1..Len(rs) : rs[k].status = status}

\* the calls of one kind made for city k
Calls(k, op) == SelectSeq(ops, LAMBDA o : o.city = k /\ o.op = op)
\* the kinds of the calls made for city k, in order
CallsOf(k) ==
    LET made == SelectSeq(ops, LAMBDA o : o.city = k)
    IN  [n \in 1..Len(made) |-> made[n].op]
ObjectsOf(k) == SelectSeq(objects, LAMBDA o : o.Metadata.city = ExpectedNames[k])
RowsOf(k) == SelectSeq(rows, LAMBDA r : r.city = ExpectedNames[k])

IsPrefix(a, b) == Len(a) <= Len(b) /\ SubSeq(b, 1, Len(a)) = a

----------------------------------------------------------------------------
\* str(e) of a failed GET
HttpFailures == {"<urlopen error timed out>"}

\* a step taken inside the loop
C1_Step ==
    pc \in CityPcs =>
      /\ response' = NoResponse
      /\ raised' = NoException
      /\ \/ /\ i' = i
            /\ results' = results
            /\ pc' \in CityPcs
         \/ /\ i' = i + 1
            /\ Len(results') = i
            /\ SubSeq(results', 1, i - 1) = results
            /\ results'[i].city = ExpectedNames[i]
            /\ results'[i].status \in {"success", "error"}
            /\ results'[i].status = "success" <=> pc = "append"
            /\ results'[i].status = "error" =>
                  /\ DOMAIN results'[i] = {"city", "status", "error"}
                  /\ results'[i].error # ""
            /\ pc' = IF i < 4 THEN "fetch" ELSE "aggregate"

\* the loop runs all four cities, and what it leaves is returned with 200
C1_Final ==
    /\ pc = "aggregate" => Len(results) = 4
    /\ pc = "done" /\ results # <<>> => response.statusCode = 200
    /\ Returned(200) =>
         \A k \in 1..4 :
           (/\ CitiesWith(results, "error") = {k}
            /\ results[k].error \in HttpFailures)
           => /\ Cardinality(CitiesWith(response.body.results, "success")) = 3
              /\ CitiesWith(response.body.results, "error") = {k}
              /\ response.body.success_rate = "75.0%"

(* C1: a failure at any step of one city's processing leaves the loop      *)
(* running: the step that ends a city appends exactly one entry, for that  *)
(* city, which is a success only when the city ran to line 106 and is      *)
(* {city, status: error, error} otherwise; the handler moves to the next   *)
(* city, or to the aggregation after the last, without returning; and the  *)
(* invocation that ran all four cities returns 200.  When the only failure *)
(* is one city's HTTP call, there are 3 successes, 1 error and "75.0%".    *)
C1_Isolation == [][C1_Step]_vars /\ []C1_Final

C1_Witness ==
    /\ Returned(200)
    /\ CitiesWith(results, "error") = {2}
    /\ results[2].error = "<urlopen error timed out>"
    /\ response.body.success_rate = "75.0%"

(* C2: no exception reaches the caller; an invocation that has not         *)
(* returned can take a step, and one that has returned holds {statusCode,  *)
(* body} with statusCode 200, 400 or 500.                                  *)
C2_AlwaysReturns ==
    /\ raised = NoException
    /\ pc # "done" => response = NoResponse /\ ENABLED Next
    /\ pc = "done" =>
         /\ DOMAIN response = {"statusCode", "body"}
         /\ response.statusCode \in {200, 400, 500}

C2_Witness ==
    /\ Returned(500)
    /\ response.body.details = "Could not load the resource model"

(* C3, as claimed: with WEATHER_API_KEY absent or empty the invocation     *)
(* returns 400 naming it, else with S3_BUCKET_NAME absent or empty 400     *)
(* naming that, with no call made, whatever lines 21-23 did.               *)
C3_Original ==
    pc = "done" /\ ConfigMissing =>
      /\ response =
           IF api_key \in {None, ""}
           THEN [statusCode |-> 400,
                 body |-> [error |-> "Missing WEATHER_API_KEY environment variable"]]
           ELSE [statusCode |-> 400,
                 body |-> [error |-> "Missing S3_BUCKET_NAME environment variable"]]
      /\ ops = <<>> /\ objects = <<>> /\ rows = <<>>

(* C3, amended: the same when lines 21-23 bound s3, dynamodb and table;    *)
(* when one of them raised, the invocation returns 500 whichever values    *)
(* are missing; in both cases no call is made.                             *)
C3_ConfigChecked ==
    pc = "done" /\ ConfigMissing =>
      /\ handles = AllHandles =>
           response =
             IF api_key \in {None, ""}
             THEN [statusCode |-> 400,
                   body |-> [error |-> "Missing WEATHER_API_KEY environment variable"]]
             ELSE [statusCode |-> 400,
                   body |-> [error |-> "Missing S3_BUCKET_NAME environment variable"]]
      /\ handles # AllHandles => response.statusCode = 500
      /\ ops = <<>> /\ objects = <<>> /\ rows = <<>>

C3_Witness ==
    /\ pc = "done"
    /\ api_key = ""
    /\ bucket_name = None
    /\ handles = AllHandles
    /\ response.statusCode = 400
    /\ response.body.error = "Missing WEATHER_API_KEY environment variable"

\* the rates of 1, 2, 3 and 4 successes out of 4
Rates == <<"25.0%", "50.0%", "75.0%", "100.0%">>

(* C4: a 200 body lists the four cities in order, counts 4 processed, and  *)
(* counts and rates the successes: "0.0%", "25.0%", "50.0%", "75.0%" or    *)
(* "100.0%"; the division of line 124 never has a zero denominator.        *)
C4_Summary ==
    /\ pc = "aggregate" => Len(results) # 0
    /\ Returned(500) => response.body.details # "division by zero"
    /\ Returned(200) =>
         LET b == response.body
             n == Cardinality(CitiesWith(b.results, "success"))
         IN  /\ Len(b.results) = 4
             /\ \A k \in 1..4 : b.results[k].city = ExpectedNames[k]
             /\ b.processed_cities = 4
             /\ b.successful_cities = n
             /\ b.success_rate = IF n = 0 THEN "0.0%" ELSE Rates[n]
             /\ b.success_rate = "100.0%" <=>
                  \A k \in 1..4 : b.results[k].status = "success"

C4_Witness ==
    /\ Returned(200)
    /\ response.body.successful_cities = 2
    /\ response.body.success_rate = "50.0%"

\* what is returned when a constructor raised
C5_Inv ==
    /\ pc = "done" /\ handles # AllHandles =>
         /\ response.statusCode = 500
         /\ DOMAIN response.body = {"error", "details", "execution_time"}
         /\ response.body.error = "Fatal error in weather data collection"
         /\ response.body.details =
              IF "s3" \notin handles THEN "You must specify a region."
              ELSE IF "dynamodb" \notin handles THEN "You must specify a region."
              ELSE "Could not load the resource model"
         /\ \E t \in 0..MaxClock : response.body.execution_time = IsoFormat(Instant(t))
         /\ results = <<>> /\ ops = <<>> /\ objects = <<>> /\ rows = <<>>
         /\ raised = NoException
    /\ Returned(500) => handles # AllHandles

\* a constructor that binds nothing ends the invocation
C5_Step ==
    pc \in {"s3_client", "dynamodb", "table"} /\ handles' = handles => pc' = "done"

(* C5: when binding s3, dynamodb or table raises, the invocation returns   *)
(* 500 at once, with the fixed label, the exception's message under        *)
(* details, an execution_time and no results, having made no call; and a   *)
(* 500 comes from nowhere else.                                            *)
C5_Fatal == []C5_Inv /\ [][C5_Step]_vars

C5_Witness ==
    /\ Returned(500)
    /\ handles = {"s3"}
    /\ api_key = "k3y"
    /\ bucket_name = "weather-bucket"

(* C6: every object is written under raw-data/<name with underscores>/     *)
(* <YYYY>/<MM>/<DD>/<timestamp>.json, the date being that of the timestamp *)
(* stamped into the payload, whenever the clock is read.                   *)
C6_KeyDate ==
    \A n \in 1..Len(objects) :
      \E k \in 1..4, t \in 0..MaxClock :
        /\ objects[n].Metadata.city = ExpectedNames[k]
        /\ objects[n].Body.timestamp = IsoFormat(Instant(t))
        /\ objects[n].Key =
             "raw-data/" \o ExpectedSafeNames[k] \o "/" \o StrftimeYmd(Instant(t))
             \o "/" \o IsoFormat(Instant(t)) \o ".json"

(* C7: a city whose payload lacks only visibility, and whose writes go     *)
(* through, ends as a success with a row whose visibility is decimal 0; a  *)
(* city whose payload lacks any other expected field ends as an error,     *)
(* with no row and no call to the table.                                   *)
C7_Visibility ==
    \A k \in 1..Len(results) :
      \A n \in 1..Len(ObjectsOf(k)) :
        LET sent == ObjectsOf(k)[n].Body.present
        IN  /\ sent = Paths \ {"visibility"} =>
                 \/ /\ results[k].status = "error"
                    /\ CallsOf(k) = <<"http", "put_object", "put_item">>
                    /\ RowsOf(k) = <<>>
                 \/ /\ results[k].status = "success"
                    /\ Len(RowsOf(k)) = 1
                    /\ RowsOf(k)[1].visibility = [coef |-> <<0>>, exp |-> 0]
                    /\ DecimalStr(RowsOf(k)[1].visibility) = "0"
            /\ \A p \in Paths \ {"visibility"} :
                 sent = Paths \ {p} =>
                   /\ results[k].status = "error"
                   /\ DOMAIN results[k] = {"city", "status", "error"}
                   /\ RowsOf(k) = <<>>
                   /\ CallsOf(k) = <<"http", "put_object">>

C7_Witness ==
    /\ dropped = "visibility"
    /\ Len(results) >= 1
    /\ results[1].status = "success"
    /\ Len(objects) >= 1
    /\ objects[1].Body.present = Paths \ {"visibility"}
    /\ Len(rows) >= 1
    /\ DecimalStr(rows[1].visibility) = "0"

(* C8, as claimed, and read in its favour: every number stored is the      *)
(* number of the source JSON, never a rounded one (the trailing zeros of a *)
(* fraction, which a decimal string shows, are not even asked for).        *)
C8_Original ==
    dpc = "stored" => DecimalValue(stored) = LiteralValue(tok)

(* C8, amended: an integer literal is stored digit for digit; a literal    *)
(* with a fraction and at most 15 significant digits is stored as the same *)
(* number, written without the trailing zeros of its fraction (one digit   *)
(* is kept after the point); a literal with more significant digits is     *)
(* stored as the decimal of the nearest double, which here is an even      *)
(* integer at most 1 away from the source.                                 *)
C8_Decimal ==
    dpc = "stored" =>
      /\ ~tok.point => DecimalStr(stored) = Literal(tok)
      /\ tok.point /\ SigDigits(tok) <= 15 =>
           /\ DecimalValue(stored) = LiteralValue(tok)
           /\ DecimalStr(stored) =
                DigitsStr(tok.ip) \o "." \o
                (IF StripTrailingZeros(tok.fp) = <<>> THEN "0"
                 ELSE DigitsStr(StripTrailingZeros(tok.fp)))
      /\ tok.point /\ SigDigits(tok) > 15 =>
           LET src == StripLeadingZeros(tok.ip)
               got == DecimalValue(stored)[1]
           IN  /\ DecimalValue(stored)[2] = <<>>
               /\ got[Len(got)] % 2 = 0
               /\ got \in {src, Incr(src), DecrOdd(src)}

C8_Witness ==
    /\ dpc = "stored"
    /\ Literal(tok) = "15.50"
    /\ DecimalStr(stored) = "15.5"

\* the order of the calls made so far
C9_Inv ==
    /\ \A a \in 1..Len(ops) - 1 : ops[a].city <= ops[a + 1].city
    /\ \A k \in 1..4 : IsPrefix(CallsOf(k), <<"http", "put_object", "put_item">>)
    /\ \A k \in 1..Len(results) :
         /\ results[k].city = ExpectedNames[k]
         /\ results[k].status = "success" =>
              CallsOf(k) = <<"http", "put_object", "put_item">>

\* a call is made for the city whose entry comes next
C9_Step ==
    /\ ops' # ops =>
         /\ ops' = Append(ops, ops'[Len(ops')])
         /\ ops'[Len(ops')].city = Len(results) + 1
    /\ results' # results => results' = Append(results, results'[Len(results')])

(* C9: the calls are made city by city in the fixed order; for one city    *)
(* the GET comes before the object write, which comes before the table     *)
(* write, which comes before the success entry; and every call for a city  *)
(* is made after the entries of all earlier cities were appended and       *)
(* before its own.                                                         *)
C9_Order == []C9_Inv /\ [][C9_Step]_vars

C9_Witness ==
    /\ Len(results) = 4
    /\ Len(ops) = 12
    /\ ops[4].city = 2 /\ ops[4].op = "http"
    /\ ops[12].city = 4 /\ ops[12].op = "put_item"

\* the sinks against the entries of a 200
C10_Inv ==
    Returned(200) =>
      \A k \in 1..4 :
        /\ Len(Calls(k, "http")) = 1
        /\ Len(Calls(k, "put_object")) <= 1
        /\ Len(Calls(k, "put_item")) <= 1
        /\ results[k].status = "success" =>
             /\ Len(ObjectsOf(k)) = 1
             /\ Len(RowsOf(k)) = 1
             /\ RowsOf(k)[1].timestamp = results[k].timestamp
             /\ ObjectsOf(k)[1].Body.timestamp = results[k].timestamp
             /\ ObjectsOf(k)[1].Metadata.collection_time = results[k].timestamp
        /\ results[k].status = "error" =>
             /\ RowsOf(k) = <<>>
             /\ Len(ObjectsOf(k)) <= 1

\* the sinks only grow
C10_Step == IsPrefix(objects, objects') /\ IsPrefix(rows, rows')

(* C10: when the invocation returns 200, every city had one GET, at most   *)
(* one object write and at most one table write; a success has exactly one *)
(* object and one row, both with the timestamp of its entry; an error has  *)
(* no row (and at most one object); and no step removes or changes an      *)
(* object or a row already written.                                        *)
C10_Sinks == []C10_Inv /\ [][C10_Step]_vars

C10_Witness ==
    /\ Returned(200)
    /\ results[1].status = "success"
    /\ results[2].status = "error"
    /\ results[3].status = "error"
    /\ Len(objects) = 3
    /\ Len(rows) = 1
    /\ clock > 0

============================================================================
